---------------------------- MODULE Spec2Model ----------------------------
(***************************************************************************)
(* Model of the ritual-card repository:                                    *)
(*   - the Avatar Relay, GET /api/img          (src/unnamed/part_000)      *)
(*   - the card generator page, RitualCardGenerator, in its three          *)
(*     revisions: v1 (src/app/page.js 1-785), v3 (src/unnamed/part_001)    *)
(*     and v4 (src/app/page.js 786-1550).                                  *)
(* JavaScript strings are TLA+ strings; a character is a string of         *)
(* length one, read with SubSeq.                                           *)
(***************************************************************************)
EXTENDS Naturals, Integers, Sequences, FiniteSets, TLC

VARIABLES
    \* ---- Avatar Relay: one invocation of GET at a time ----
    rpc,        \* position of the handler: "idle", "fetching", "reading", "done"
    rurl,       \* the request's `url` query parameter (Null when absent)
    rhost,      \* the handler's local `host`
    rsteps,     \* what the handler has done so far, in order
    rups,       \* the upstream response the handler awaits / holds
    rthrown,    \* the await that threw, if any: "none", "fetch", "body"
    rresp,      \* the Response returned (status 0: none yet)
    \* ---- RitualCardGenerator: the React state of one mounted page ----
    variant,    \* the revision of the page that is loaded: "v1", "v3", "v4"
                \* ("none": no page is loaded)
    handle,     \* useState: the text of the handle input
    selectedRole, \* useState: the role chosen ("" when none)
    loading,    \* useState
    error,      \* useState: the inline validation message
    profile,    \* useState: the profile bound to the card
    showCard,   \* useState
    lookups,    \* the generateCard invocations suspended at their await, oldest
                \* first: each holds its local `username` and the input it read
    last,       \* the handler that ran last, with what it was given
    \* ---- RitualCardGenerator: exporting the card ----
    platform,   \* the browser the page runs in: what isIOS / getUA,
                \* navigator.canShare and window.open answer there
    exporting,  \* useState
    exportStatus, \* useState (v3, v4): the status line under the buttons
    iosSaveDataURL, \* useState (v4): the image the overlay shows (Null: none)
    exports,    \* the download invocations suspended at an await, oldest first
    tabs,       \* the browsing contexts window.open has returned, in order
    urls,       \* the object URLs URL.createObjectURL has returned, in order
    timers,     \* the number of pending setTimeout(() => setExportStatus(""))
    started,    \* the number of download invocations that went past the guard
    lastExport, \* the download invocation that ended last, with what it did
    images      \* the img elements of the card (the logo, the avatar)

relayVars == <<rpc, rurl, rhost, rsteps, rups, rthrown, rresp>>

uiVars == <<variant, handle, selectedRole, loading, error, profile, showCard, lookups, last>>

exportVars ==
    <<platform, exporting, exportStatus, iosSaveDataURL, exports, tabs, urls, timers,
      started, lastExport, images>>

vars == <<relayVars, uiVars, exportVars>>

(***************************************************************************)
(* JavaScript values and string primitives                                 *)
(***************************************************************************)

\* null / undefined (the two are not told apart by any code modelled here)
Null == "<null>"

\* !v for the values that occur: null, undefined and "" are falsy
Falsy(v) == v = Null \/ v = ""

\* a || b
Or(a, b) == IF Falsy(a) THEN b ELSE a

\* String.prototype.indexOf, 1-based; 0 when `pat` does not occur
IndexOf(s, pat) ==
    LET stop == Len(s) - Len(pat) + 1
        at(i) == SubSeq(s, i, i + Len(pat) - 1) = pat
    IN  IF \E i \in 1..stop : at(i)
        THEN CHOOSE i \in 1..stop : at(i) /\ \A j \in 1..(i - 1) : ~at(j)
        ELSE 0

\* String.prototype.lastIndexOf, 1-based; 0 when `pat` does not occur
LastIndexOf(s, pat) ==
    LET stop == Len(s) - Len(pat) + 1
        at(i) == SubSeq(s, i, i + Len(pat) - 1) = pat
    IN  IF \E i \in 1..stop : at(i)
        THEN CHOOSE i \in 1..stop : at(i) /\ \A j \in (i + 1)..stop : ~at(j)
        ELSE 0

\* String.prototype.endsWith
endsWith(s, suffix) ==
    /\ Len(s) >= Len(suffix)
    /\ SubSeq(s, Len(s) - Len(suffix) + 1, Len(s)) = suffix

\* String.prototype.startsWith
startsWith(s, prefix) ==
    /\ Len(s) >= Len(prefix)
    /\ SubSeq(s, 1, Len(prefix)) = prefix

UpperChars == "ABCDEFGHIJKLMNOPQRSTUVWXYZ"
LowerChars == "abcdefghijklmnopqrstuvwxyz"
DigitChars == "0123456789"

RECURSIVE toLowerCase(_)
toLowerCase(s) ==
    IF s = "" THEN ""
    ELSE LET c == SubSeq(s, 1, 1)
             i == IndexOf(UpperChars, c)
         IN  (IF i = 0 THEN c ELSE SubSeq(LowerChars, i, i))
                 \o toLowerCase(SubSeq(s, 2, Len(s)))

\* every character of s occurs in the string `chars`
AllCharsIn(s, chars) == \A i \in 1..Len(s) : IndexOf(chars, SubSeq(s, i, i)) # 0

\* position of the first character of s that occurs in `chars`; Len(s)+1 if none
FirstOf(s, chars) ==
    LET hit(i) == IndexOf(chars, SubSeq(s, i, i)) # 0
    IN  IF \E i \in 1..Len(s) : hit(i)
        THEN CHOOSE i \in 1..Len(s) : hit(i) /\ \A j \in 1..(i - 1) : ~hit(j)
        ELSE Len(s) + 1

\* position of the first character of s that does not occur in `chars`
FirstNotOf(s, chars) ==
    LET miss(i) == IndexOf(chars, SubSeq(s, i, i)) = 0
    IN  IF \E i \in 1..Len(s) : miss(i)
        THEN CHOOSE i \in 1..Len(s) : miss(i) /\ \A j \in 1..(i - 1) : ~miss(j)
        ELSE Len(s) + 1

\* position of the last character of s that does not occur in `chars`; 0 if none
LastNotOf(s, chars) ==
    LET miss(i) == IndexOf(chars, SubSeq(s, i, i)) = 0
    IN  IF \E i \in 1..Len(s) : miss(i)
        THEN CHOOSE i \in 1..Len(s) : miss(i) /\ \A j \in (i + 1)..Len(s) : ~miss(j)
        ELSE 0

\* the white space String.prototype.trim removes (space, tab, line feed)
WhiteSpace == " \t\n"

\* String.prototype.trim
trim(s) == SubSeq(s, FirstNotOf(s, WhiteSpace), LastNotOf(s, WhiteSpace))

(***************************************************************************)
(* new URL(input): the part of the WHATWG parser that fixes .hostname.     *)
(* The result is [ok, scheme, hostname]; ok = FALSE is the TypeError.      *)
(***************************************************************************)

SpecialSchemes == {"http", "https", "ftp", "ws", "wss"}

URLFailure == [ok |-> FALSE, scheme |-> "", hostname |-> ""]

\* host[:port] with the userinfo already removed
URLHostPort(hostport, scheme) ==
    LET c    == IndexOf(hostport, ":")
        host == IF c = 0 THEN hostport ELSE SubSeq(hostport, 1, c - 1)
        port == IF c = 0 THEN "" ELSE SubSeq(hostport, c + 1, Len(hostport))
    IN  IF ~AllCharsIn(port, DigitChars) THEN URLFailure
        ELSE IF FirstOf(host, " <>^|%[]") <= Len(host) THEN URLFailure
        ELSE IF scheme \in SpecialSchemes
             THEN IF host = "" THEN URLFailure
                  ELSE [ok |-> TRUE, scheme |-> scheme, hostname |-> toLowerCase(host)]
             ELSE [ok |-> TRUE, scheme |-> scheme, hostname |-> host]

URLParse(input) ==
    LET u      == trim(input)
        colon  == IndexOf(u, ":")
        scheme == toLowerCase(SubSeq(u, 1, colon - 1))
        rest   == SubSeq(u, colon + 1, Len(u))
    IN  IF colon <= 1 THEN URLFailure
        ELSE IF ~( /\ IndexOf(LowerChars, SubSeq(scheme, 1, 1)) # 0
                   /\ AllCharsIn(scheme, LowerChars \o DigitChars \o "+-.") )
             THEN URLFailure
        ELSE IF scheme \in SpecialSchemes
             THEN \* any run of slashes is skipped before the authority
                  LET auth0 == SubSeq(rest, FirstNotOf(rest, "/\\"), Len(rest))
                      auth  == SubSeq(auth0, 1, FirstOf(auth0, "/\\?#") - 1)
                      at    == LastIndexOf(auth, "@")
                  IN  URLHostPort(SubSeq(auth, at + 1, Len(auth)), scheme)
             ELSE IF startsWith(rest, "//")
                  THEN LET auth0 == SubSeq(rest, 3, Len(rest))
                           auth  == SubSeq(auth0, 1, FirstOf(auth0, "/?#") - 1)
                           at    == LastIndexOf(auth, "@")
                       IN  URLHostPort(SubSeq(auth, at + 1, Len(auth)), scheme)
                  ELSE \* an opaque path: no host
                       [ok |-> TRUE, scheme |-> scheme, hostname |-> ""]

\* the schemes fetch() can load; any other makes fetch reject with a TypeError
FetchSchemes == {"http", "https"}

(***************************************************************************)
(* RitualCardGenerator: data                                               *)
(***************************************************************************)

Variants == {"v1", "v3", "v4"}

\* roleConfig: the fields the card shows
roleConfig ==
    [Initiate            |-> [stars |-> 1, rarity |-> "INITIATE"],
     Ritty_Bitty         |-> [stars |-> 2, rarity |-> "COMMON"],
     Ritty               |-> [stars |-> 3, rarity |-> "RARE"],
     Mage                |-> [stars |-> 3, rarity |-> "MAGE"],
     Ritualist           |-> [stars |-> 4, rarity |-> "EPIC"],
     Radiant_Ritualist   |-> [stars |-> 5, rarity |-> "LEGENDARY"]]

\* Object.keys(roleConfig) ("Ritty Bitty" and "Radiant Ritualist" are written
\* with an underscore)
Roles == DOMAIN roleConfig

\* useState's initial profile, which reset puts back
InitialProfile ==
    [username |-> "", displayName |-> "USERNAME", avatarUrl |-> "",
     bio |-> "Stay Ritualized", followers |-> Null, following |-> Null, tweets |-> Null]

\* String.prototype.replace(pattern, replacement) with a string pattern: the
\* first occurrence only
ReplaceFirst(s, pat, rep) ==
    IF IndexOf(s, pat) = 0 THEN s
    ELSE SubSeq(s, 1, IndexOf(s, pat) - 1) \o rep
            \o SubSeq(s, IndexOf(s, pat) + Len(pat), Len(s))

\* a ?? b
Coalesce(a, b) == IF a = Null THEN b ELSE a

\* encodeURIComponent: the characters it leaves alone, and the escapes of the
\* others that occur in the avatar URLs
UnreservedChars == LowerChars \o UpperChars \o DigitChars \o "-_.!~*'()"
EscapedChars == ":/?=&%@#+, "
Escapes == <<"%3A", "%2F", "%3F", "%3D", "%26", "%25", "%40", "%23", "%2B", "%2C", "%20">>

RECURSIVE encodeURIComponent(_)
encodeURIComponent(s) ==
    IF s = "" THEN ""
    ELSE (IF IndexOf(UnreservedChars, SubSeq(s, 1, 1)) # 0
          THEN SubSeq(s, 1, 1)
          ELSE Escapes[IndexOf(EscapedChars, SubSeq(s, 1, 1))])
             \o encodeURIComponent(SubSeq(s, 2, Len(s)))

(***************************************************************************)
(* generateCard                                                            *)
(***************************************************************************)

\* const username = handle.replace("@", "").trim()
NormalizeHandle(h) == trim(ReplaceFirst(h, "@", ""))

\* a mutant of ValidationError: the role is not checked
ValidationError_noRoleCheck(username, role) ==
    IF username = "" THEN "Please enter your X/Twitter username" ELSE ""

\* the message of the check that makes generateCard return early; "" when
\* both checks pass
ValidationError(username, role) ==
    IF username = "" THEN "Please enter your X/Twitter username"
    ELSE IF role = "" THEN "Please select your role"
    ELSE ""

\* what the lookup of a profile can end in: fetch rejects, the response is not
\* ok, res.json() rejects, or data arrives; data may hold a user
NoAvatar == [present |-> FALSE, url |-> Null]

EmptyUser ==
    [name |-> Null, avatar_url |-> Null, profile_image_url_https |-> Null,
     profile_image_url |-> Null, avatar |-> NoAvatar, description |-> Null, bio |-> Null,
     followers_count |-> Null, followers |-> Null, following_count |-> Null,
     friends_count |-> Null, statuses_count |-> Null, tweet_count |-> Null]

Outcome(kind, hasUser, user) == [kind |-> kind, hasUser |-> hasUser, user |-> user]

NoOutcome == Outcome("none", FALSE, EmptyUser)

\* u.avatar_url || u.profile_image_url_https || u.profile_image_url
\*     || (u.avatar && u.avatar.url) || ""
PickAvatar(u) ==
    Or(Or(Or(Or(u.avatar_url, u.profile_image_url_https), u.profile_image_url),
          IF u.avatar.present THEN u.avatar.url ELSE Null),
       "")

\* if (avatarUrl) avatarUrl = avatarUrl.replace("_normal", "_400x400")
UpscaleAvatar(url) == IF Falsy(url) THEN url ELSE ReplaceFirst(url, "_normal", "_400x400")

\* a mutant of ProxyAvatar: the URL is not routed through the relay
ProxyAvatar_direct(url) == url

\* if (avatarUrl) avatarUrl = `/api/img?url=${encodeURIComponent(avatarUrl)}`
ProxyAvatar(url) == IF Falsy(url) THEN url ELSE "/api/img?url=" \o encodeURIComponent(url)

\* a mutant of ResolveBio: the default is not kept when both fields are absent
ResolveBio_noDefault(u, dflt) == Or(u.description, u.bio)

\* bio = u.description || u.bio || bio
ResolveBio(u, dflt) == Or(Or(u.description, u.bio), dflt)

\* the record generateCard builds when nothing is taken from the response
FallbackProfile(username) ==
    [username |-> username, displayName |-> username, avatarUrl |-> "",
     bio |-> "Stay Ritualized", followers |-> Null, following |-> Null, tweets |-> Null]

\* a mutant of ResolveProfile: a failed lookup keeps the placeholder name
ResolveProfile_placeholderOnFailure(username, o) ==
    IF o.kind # "data" THEN [InitialProfile EXCEPT !.username = username]
    ELSE FallbackProfile(username)

\* the locals of generateCard after its try/catch, as passed to setProfile
ResolveProfile(username, o) ==
    IF o.kind # "data" \/ ~o.hasUser
    THEN FallbackProfile(username)
    ELSE [username    |-> username,
          displayName |-> Or(o.user.name, username),
          avatarUrl   |-> ProxyAvatar(UpscaleAvatar(PickAvatar(o.user))),
          bio         |-> ResolveBio(o.user, "Stay Ritualized"),
          followers   |-> Coalesce(Coalesce(o.user.followers_count, o.user.followers), Null),
          following   |-> Coalesce(Coalesce(o.user.following_count, o.user.friends_count), Null),
          tweets      |-> Coalesce(Coalesce(o.user.statuses_count, o.user.tweet_count), Null)]

\* the handler that ran last
Last(op, input, username, outcome) ==
    [op |-> op, input |-> input, username |-> username, outcome |-> outcome]

\* a mutant of RenderedCard: one star too many is drawn
RenderedCard_extraStar(role, p) ==
    [badge |-> roleConfig[role].rarity, stars |-> roleConfig[role].stars + 1,
     name |-> p.displayName, sideHandle |-> "@" \o p.username]

\* what the card section shows of cfg = roleConfig[selectedRole] and of the
\* profile: the badge {cfg.rarity}, one <Star> per Array.from({ length:
\* cfg.stars }), the name and the handle
RenderedCard(role, p) ==
    [badge |-> roleConfig[role].rarity, stars |-> roleConfig[role].stars,
     name |-> p.displayName, sideHandle |-> "@" \o p.username]

\* the browser: ios is what isIOS() / getUA().ios answer, canShare what
\* navigator.canShare && navigator.canShare({files}) answers, popups whether
\* window.open returns a window (FALSE: it is blocked and returns null)
Platform(ios, canShare, popups) == [ios |-> ios, canShare |-> canShare, popups |-> popups]

Desktop == Platform(FALSE, FALSE, TRUE)

Platforms == {Platform(i, c, p) : i \in BOOLEAN, c \in BOOLEAN, p \in BOOLEAN}

\* a mutant of RasterBlob: the blob of the first invocation is kept and given
\* again
RasterBlob_cached(id, call) == [by |-> 1, call |-> 1]

\* the blob the call-th toBlob call of the id-th download invocation resolves
\* with; NoBlob: the invocation holds none
RasterBlob(id, call) == [by |-> id, call |-> call]

NoBlob == [by |-> 0, call |-> 0]

\* what a download invocation did, once it has ended: id is its rank among
\* the invocations, blob the blob it held, steps the calls it made, in order
Ended(result, username, filename, delivery, rast, firstFailed, popup, alert, id, blob, steps) ==
    [result |-> result, username |-> username, filename |-> filename, delivery |-> delivery,
     rast |-> rast, firstFailed |-> firstFailed, popup |-> popup, alert |-> alert,
     id |-> id, blob |-> blob, steps |-> steps]

NoExport == Ended("none", "", "", "none", 0, FALSE, 0, "", 0, NoBlob, <<>>)

\* the export state of a page on which download has not run
ExportsIdle ==
    /\ exporting = FALSE
    /\ exportStatus = ""
    /\ iosSaveDataURL = Null
    /\ exports = <<>>
    /\ tabs = <<>>
    /\ urls = <<>>
    /\ timers = 0
    /\ started = 0
    /\ lastExport = NoExport

NoPage ==
    /\ platform = Desktop
    /\ ExportsIdle
    /\ images = <<>>
    /\ variant = "none"
    /\ handle = ""
    /\ selectedRole = ""
    /\ loading = FALSE
    /\ error = ""
    /\ profile = InitialProfile
    /\ showCard = FALSE
    /\ lookups = <<>>
    /\ last = Last("none", "", "", NoOutcome)

\* the page as mounted
UIInit ==
    /\ platform = Desktop
    /\ ExportsIdle
    /\ images = <<>>
    /\ variant \in Variants
    /\ handle = ""
    /\ selectedRole = ""
    /\ loading = FALSE
    /\ error = ""
    /\ profile = InitialProfile
    /\ showCard = FALSE
    /\ lookups = <<>>
    /\ last = Last("mount", "", "", NoOutcome)

\* {!showCard && <section> the form </section>}
FormRendered == variant \in Variants /\ ~showCard

\* {showCard && cfg && <section> the card and its buttons </section>}
CardRendered == variant \in Variants /\ showCard /\ selectedRole # ""

\* the number of generateCard invocations followed while suspended
MaxLookups == 2

\* the texts typed into the handle input
Handles == {"", " @bob ", " a@b", " @ "}

\* onChange={(e) => setHandle(e.target.value)}
setHandle(v) ==
    /\ FormRendered
    /\ handle' = v
    /\ last' = Last("setHandle", v, "", NoOutcome)
    /\ UNCHANGED <<variant, selectedRole, loading, error, profile, showCard, lookups>>

\* onClick={() => setSelectedRole(role)}
setSelectedRole(role) ==
    /\ FormRendered
    /\ selectedRole' = role
    /\ last' = Last("setSelectedRole", role, "", NoOutcome)
    /\ UNCHANGED <<variant, handle, loading, error, profile, showCard, lookups>>

\* generateCard, from its entry to its return or to its await of fetch
generateCard ==
    /\ Len(lookups) < MaxLookups
    /\ \E username \in {NormalizeHandle(handle)} :
        /\ last' = Last("generateCard", handle, username, NoOutcome)
        /\ IF ValidationError(username, selectedRole) # ""
           THEN /\ error' = ValidationError(username, selectedRole)
                /\ UNCHANGED <<loading, lookups>>
           ELSE /\ error' = ""
                /\ loading' = TRUE
                /\ lookups' = Append(lookups, [username |-> username, input |-> handle])
    /\ UNCHANGED <<variant, handle, selectedRole, profile, showCard>>

\* <button onClick={generateCard} disabled={loading}>
ClickGenerate ==
    /\ FormRendered
    /\ ~loading
    /\ generateCard

\* onKeyDown={e => e.key === "Enter" && generateCard()}: v3 and v4 only
PressEnter ==
    /\ FormRendered
    /\ variant \in {"v3", "v4"}
    /\ generateCard

\* generateCard, from the settling of its await to its end: the i-th suspended
\* invocation goes on with outcome o
generateCard_resume(i, o) ==
    /\ i \in 1..Len(lookups)
    /\ profile' = ResolveProfile(lookups[i].username, o)
    /\ showCard' = TRUE
    /\ loading' = FALSE
    /\ lookups' = SubSeq(lookups, 1, i - 1) \o SubSeq(lookups, i + 1, Len(lookups))
    /\ last' = Last("resolved", lookups[i].input, lookups[i].username, o)
    /\ UNCHANGED <<variant, handle, selectedRole, error>>

\* the React state of the page: the values its useState hooks hold
PageState ==
    [handle |-> handle, selectedRole |-> selectedRole, loading |-> loading,
     exporting |-> exporting, exportStatus |-> exportStatus, error |-> error,
     iosSaveDataURL |-> iosSaveDataURL, profile |-> profile, showCard |-> showCard]

\* a mutant of resetState: the status line of the last export is left standing
resetState_keepsStatus(v, st) ==
    [st EXCEPT !.showCard = FALSE, !.handle = "", !.selectedRole = "", !.error = "",
               !.profile = InitialProfile]

\* the React state reset() leaves when run in state st of revision v: v1 has
\* no exportStatus, v1 and v3 no iosSaveDataURL
resetState(v, st) ==
    [st EXCEPT !.showCard = FALSE, !.handle = "", !.selectedRole = "", !.error = "",
               !.exportStatus = IF v = "v1" THEN @ ELSE "",
               !.iosSaveDataURL = IF v = "v4" THEN Null ELSE @,
               !.profile = InitialProfile]

\* reset ("Make another")
reset ==
    /\ CardRendered
    /\ \E t \in {resetState(variant, PageState)} :
        /\ showCard' = t.showCard
        /\ handle' = t.handle
        /\ selectedRole' = t.selectedRole
        /\ error' = t.error
        /\ exportStatus' = t.exportStatus
        /\ iosSaveDataURL' = t.iosSaveDataURL
        /\ profile' = t.profile
        /\ loading' = t.loading
        /\ exporting' = t.exporting
    /\ last' = Last("reset", "", "", NoOutcome)
    /\ UNCHANGED <<variant, lookups, platform, exports, tabs, urls, timers, started, lastExport,
                   images>>

(***************************************************************************)
(* Exporting the card: download, renderCardBlob and the delivery           *)
(* Status texts are written in ASCII: "..." for the ellipsis, "-" for the  *)
(* dash, "(v)" for the check mark.                                         *)
(***************************************************************************)

\* the number of download invocations followed
MaxExports == 2

\* s without its i-th element
Without(s, i) == SubSeq(s, 1, i - 1) \o SubSeq(s, i + 1, Len(s))

\* a mutant of ExportFilename: the name does not carry the username
ExportFilename_alwaysCard(username) == "ritual-card-" \o "card" \o ".png"

\* `ritual-card-${profile.username || "card"}.png`
ExportFilename(username) == "ritual-card-" \o Or(username, "card") \o ".png"

\* the guard download starts with: v1 `if (!stageRef.current) return`,
\* v3 and v4 `if (!stageRef.current || exporting) return`
DownloadRefused(v, stage, inFlight) == ~stage \/ (v # "v1" /\ inFlight)

\* whether download opens a browsing context before its first await, and gets
\* one: v1 `ios ? window.open("", "_blank") : null`, v3 `if (ios) preTab =
\* window.open("about:blank", "_blank")`, v4 never
OpensTab(v, p) == v \in {"v1", "v3"} /\ p.ios /\ p.popups

\* what the context opened shows at first: v3 writes a loading page into it
OpenedTab(v) == IF v = "v3" THEN "loading" ELSE "blank"

\* the way the image is handed over.  v1: the share sheet when canShare says
\* so, else the opened popup on iOS, else the anchor; v3: the pre-opened tab on
\* iOS, else the anchor; v4: the overlay on iOS, else the anchor
Delivery(v, p, popup) ==
    IF v = "v1"
    THEN IF p.canShare THEN "share"
         ELSE IF p.ios /\ popup # 0 THEN "popup"
         ELSE "anchor"
    ELSE IF p.ios THEN (IF v = "v3" THEN "tab" ELSE "overlay")
    ELSE "anchor"

\* the texts given to setExportStatus
ExportStatusText(v, step) ==
    CASE step = "rendering"   -> "Rendering..."
      [] step = "exporting"   -> "Exporting image..."
      [] step = "preparing"   -> IF v = "v3" THEN "Preparing image..." ELSE "Preparing..."
      [] step = "held"        -> IF v = "v3" THEN "Long-press the image to save it (v)"
                                 ELSE "Hold the image to save (v)"
      [] step = "downloading" -> "Downloading..."
      [] step = "downloaded"  -> "Downloaded! (v)"
      [] step = "failed"      -> IF v = "v3" THEN "Export failed - tap to retry"
                                 ELSE "Export failed - try again"

\* setExportStatus(text): v1 has no status line
setExportStatus(v, text) == IF v = "v1" THEN exportStatus ELSE text

\* what htmlToImage.toBlob can settle with: a blob, null, or a rejection; with
\* no element to render (the card is gone) it rejects
RasterOutcomes(el) == IF el THEN {"blob", "null", "throws"} ELSE {"throws"}

\* what follows the settling of the call-th toBlob: v1 makes one call and
\* throws "Blob failed" on null; renderCardBlob (v3, v4) makes a second call
\* at pixelRatio 2 when the first throws or gives null, and throws when the
\* second does
AfterRaster(v, call, outcome) ==
    IF outcome = "blob" THEN "deliver"
    ELSE IF v # "v1" /\ call = 1 THEN "retry"
    ELSE "throw"

\* a mutant of Finally: the in-flight flag is cleared on success only
Finally_keepsFlagOnFailure(v, result) ==
    [exporting |-> result = "failed", timers |-> IF v = "v1" THEN 0 ELSE 1]

\* the finally block of download: setExporting(false), and in v3 and v4
\* setTimeout(() => setExportStatus(""), ...)
Finally(v, result) == [exporting |-> FALSE, timers |-> IF v = "v1" THEN 0 ELSE 1]

\* popup?.close()
CloseTab(ts, k) == IF k = 0 THEN ts ELSE [ts EXCEPT ![k] = "closed"]

\* a page is put into the context k: popup.location.href = url,
\* tab.document.write(html); nothing happens to a closed context
ShowInTab(ts, k, page) ==
    IF k = 0 \/ ts[k] = "closed" THEN ts ELSE [ts EXCEPT ![k] = page]

\* the catch block's handling of the opened context: v1 closes it, v3 writes
\* the "Export failed" page into it if it is still open
TabsOnFailure(v, ts, k) ==
    IF v = "v1" THEN CloseTab(ts, k)
    ELSE IF v = "v3" THEN ShowInTab(ts, k, "failed")
    ELSE ts

\* a mutant of fillTabWithImage: nothing is tried when the tab is missing or
\* the write throws
fillTabWithImage_noFallback(ts, k, p, write, nav) ==
    IF k = 0 \/ ts[k] = "closed"
    THEN [tabs |-> ts, tried |-> <<>>]
    ELSE IF write
    THEN [tabs |-> ShowInTab(ts, k, "image"), tried |-> <<"document.write">>]
    ELSE [tabs |-> ts, tried |-> <<"document.write">>]

\* fillTabWithImage(tab, dataURL, filename): with no tab, or a closed one,
\* window.open(dataURL) is tried; else the image page is written into the
\* tab, and when that throws (write = FALSE) the tab is sent to the data URL,
\* which it shows when the browser lets it (nav).  Every call is inside a
\* try with an empty catch: nothing is thrown to download.  tried: the calls
\* made, in order
fillTabWithImage(ts, k, p, write, nav) ==
    IF k = 0 \/ ts[k] = "closed"
    THEN [tabs |-> IF p.popups THEN Append(ts, "image") ELSE ts,
          tried |-> <<"window.open(dataURL)">>]
    ELSE IF write
    THEN [tabs |-> ShowInTab(ts, k, "image"), tried |-> <<"document.write">>]
    ELSE [tabs |-> IF nav THEN ShowInTab(ts, k, "image") ELSE ts,
          tried |-> <<"document.write", "tab.location.href">>]

\* an img element: state is "loading" (img.complete is false), "complete"
\* (fetched and decodable) or "broken" (the fetch or the data has failed;
\* img.complete is true); decode: the element has a decode method
Img(state, decode) == [state |-> state, decode |-> decode]

\* the img elements of a card that has been on screen for a while: the card
\* logo and the avatar, both fetched
StageImages == <<Img("complete", TRUE), Img("complete", TRUE)>>

\* the mapper of waitForImages past the load of an image: `if (img.decode)
\* await img.decode()`, else it returns
AfterLoad(img) ==
    IF img.decode THEN "decode"
    ELSE IF img.state = "broken" THEN "failed" ELSE "loaded"

\* the mapper of waitForImages, to its first await: `if (!img.complete) await
\* new Promise((res, rej) => { img.onload = res; img.onerror = rej })`
MapperStart(img) == IF img.state = "loading" THEN "load" ELSE AfterLoad(img)

\* waitForImages(rootEl), to the await of Promise.all: one mapper for each
\* img element
waitForImages(imgs) == [k \in 1..Len(imgs) |-> MapperStart(imgs[k])]

\* a mutant of BarrierResolved: the first mapper to return resolves it
BarrierResolved_any(ws) == ws = <<>> \/ \E k \in 1..Len(ws) : ws[k] \notin {"load", "decode"}

\* Promise.all(imgs.map(...)) resolves: every mapper has returned (each
\* catches what its awaits throw, so none rejects)
BarrierResolved(ws) == \A k \in 1..Len(ws) : ws[k] \notin {"load", "decode"}

\* what download does before its first await: v1 `isIOS()` and, on iOS,
\* `window.open("", "_blank")`; v3 `getUA()` and, on iOS,
\* `window.open("about:blank", "_blank")`; v4 `getUA()`; then the await of
\* the paint delay
FirstSteps(v, p) ==
    <<IF v = "v1" THEN "isIOS" ELSE "getUA">>
    \o (IF v \in {"v1", "v3"} /\ p.ios THEN <<"window.open">> ELSE <<>>)
    \o <<"await setTimeout">>

\* what download does with the blob, to its next await or its end, on the way
\* d: v1 asks navigator.canShare first
DeliverySteps(v, d) ==
    (IF v = "v1" THEN <<"canShare">> ELSE <<>>)
    \o CASE d = "share"  -> <<"await navigator.share">>
          [] d = "popup"  -> <<"createObjectURL", "popup.location.href">>
          [] d = "anchor" -> <<"createObjectURL", "a.click">>
          [] OTHER        -> <<"await blobToDataURL">>

\* the data URL blobToDataURL resolves with
DataURL(filename) == "data:image/png;base64," \o filename

\* the state the page's other hooks keep during an export
ExportFrame == UNCHANGED <<variant, handle, selectedRole, loading, error, profile, showCard,
                           lookups, platform, started, images>>

\* the i-th download invocation ends: its catch block if it failed, then its
\* finally block
EndExport(i, result, delivery, status, tabs1, urls1, overlay, alert, firstFailed, blob, did) ==
    /\ exports' = Without(exports, i)
    /\ \E f \in {Finally(variant, result)} :
        /\ exporting' = f.exporting
        /\ timers' = timers + f.timers
    /\ exportStatus' = status
    /\ tabs' = tabs1
    /\ urls' = urls1
    /\ iosSaveDataURL' = overlay
    /\ lastExport' = Ended(result, exports[i].username, exports[i].filename, delivery,
                           exports[i].rast, firstFailed, exports[i].popup, alert,
                           exports[i].id, blob, exports[i].steps \o did)
    /\ last' = Last("download", result, profile.username, NoOutcome)
    /\ ExportFrame

\* the i-th download invocation throws inside its try; firstFailed: its first
\* toBlob call has thrown or given null
ExportFails(i, firstFailed) ==
    EndExport(i, "failed", "none", setExportStatus(variant, ExportStatusText(variant, "failed")),
              TabsOnFailure(variant, tabs, exports[i].popup), urls, iosSaveDataURL,
              IF variant = "v1" THEN "Export failed on iOS. Try again." ELSE "", firstFailed,
              exports[i].blob, <<"catch">>)

\* the i-th download invocation goes on to its next await, having done did
ExportGoesOn(i, pc, status, rast, firstFailed, el, blob, did) ==
    /\ exports' = [exports EXCEPT ![i].pc = pc, ![i].rast = rast,
                                  ![i].firstFailed = firstFailed, ![i].el = el,
                                  ![i].blob = blob, ![i].steps = @ \o did,
                                  ![i].waits = IF pc = "images" THEN waitForImages(images)
                                               ELSE @]
    /\ exportStatus' = status
    /\ last' = Last("download", pc, profile.username, NoOutcome)
    /\ UNCHANGED <<exporting, iosSaveDataURL, tabs, urls, timers, lastExport>>
    /\ ExportFrame

\* download, from its entry to its first await
download ==
    /\ started < MaxExports
    /\ IF DownloadRefused(variant, CardRendered, exporting)
       THEN /\ last' = Last("download", "refused", profile.username, NoOutcome)
            /\ UNCHANGED <<exporting, exportStatus, exports, tabs, started>>
       ELSE /\ \E popup \in {IF OpensTab(variant, platform) THEN Len(tabs) + 1 ELSE 0} :
                /\ tabs' = IF popup = 0 THEN tabs ELSE Append(tabs, OpenedTab(variant))
                /\ exports' = Append(exports,
                       [pc |-> "delay", username |-> profile.username,
                        filename |-> ExportFilename(profile.username),
                        popup |-> popup, rast |-> 0, firstFailed |-> FALSE, el |-> FALSE,
                        id |-> started + 1, blob |-> NoBlob, waits |-> <<>>,
                        steps |-> FirstSteps(variant, platform)])
            /\ exporting' = TRUE
            /\ exportStatus' = setExportStatus(variant, ExportStatusText(variant, "rendering"))
            /\ started' = started + 1
            /\ last' = Last("download", "started", profile.username, NoOutcome)
    /\ UNCHANGED <<variant, handle, selectedRole, loading, error, profile, showCard, lookups,
                   platform, iosSaveDataURL, urls, timers, lastExport, images>>

\* <button onClick={download}>: in the card section; v3 and v4 render it
\* disabled={exporting}
ClickDownload ==
    /\ CardRendered
    /\ variant = "v1" \/ ~exporting
    /\ download

\* the await of setTimeout ends; waitForImages(stageRef.current) is called and
\* throws at once on a null element
download_delayElapsed(i) ==
    /\ i \in 1..Len(exports)
    /\ exports[i].pc = "delay"
    /\ IF CardRendered
       THEN ExportGoesOn(i, "images", exportStatus, 0, FALSE, FALSE, NoBlob,
                         <<"await waitForImages">>)
       ELSE ExportFails(i, FALSE)

\* the load or the error event of the k-th image: its handlers are those of
\* the mapper that set them last (`img.onload = res; img.onerror = rej`
\* replaces the handlers an earlier invocation has set, whose mapper waits on)
imageLoads(k, ok) ==
    /\ k \in 1..Len(images)
    /\ images[k].state = "loading"
    /\ images' = [images EXCEPT ![k].state = IF ok THEN "complete" ELSE "broken"]
    /\ exports' =
           [i \in 1..Len(exports) |->
               IF /\ exports[i].pc = "images"
                  /\ exports[i].waits[k] = "load"
                  /\ \A j \in 1..Len(exports) :
                         (exports[j].pc = "images" /\ exports[j].waits[k] = "load")
                             => exports[j].id <= exports[i].id
               THEN [exports[i] EXCEPT !.waits[k] = IF ok THEN AfterLoad(images'[k])
                                                    ELSE "failed"]
               ELSE exports[i]]
    /\ last' = Last("image", IF ok THEN "load" ELSE "error", "", NoOutcome)
    /\ UNCHANGED <<variant, handle, selectedRole, loading, error, profile, showCard, lookups,
                   platform, exporting, exportStatus, iosSaveDataURL, tabs, urls, timers,
                   started, lastExport>>

\* img.decode() of the k-th image settles for the i-th invocation: it resolves
\* for a complete image and rejects for a broken one, which the mapper catches
decodeSettles(i, k) ==
    /\ i \in 1..Len(exports)
    /\ exports[i].pc = "images"
    /\ k \in 1..Len(exports[i].waits)
    /\ exports[i].waits[k] = "decode"
    /\ exports' = [exports EXCEPT ![i].waits[k] =
                       IF images[k].state = "complete" THEN "decoded" ELSE "failed"]
    /\ last' = Last("image", "decode", "", NoOutcome)
    /\ UNCHANGED <<exporting, exportStatus, iosSaveDataURL, tabs, urls, timers, lastExport>>
    /\ ExportFrame

\* waitForImages has resolved (it never rejects); the first toBlob is called
\* on stageRef.current
download_imagesReady(i) ==
    /\ i \in 1..Len(exports)
    /\ exports[i].pc = "images"
    /\ BarrierResolved(exports[i].waits)
    /\ ExportGoesOn(i, "raster1",
                    setExportStatus(variant, ExportStatusText(variant, "exporting")),
                    1, FALSE, CardRendered, NoBlob, <<"await toBlob">>)

\* the blob is handed over; the share sheet and the data URL are awaited
download_deliver(i, blob) ==
    \E d \in {Delivery(variant, platform, exports[i].popup)} :
        CASE d = "anchor" ->
               EndExport(i, "ok", d,
                         setExportStatus(variant, ExportStatusText(variant, "downloaded")),
                         tabs, Append(urls, IF variant = "v1" THEN "timer" ELSE "raf"),
                         iosSaveDataURL, "", exports[i].firstFailed, blob,
                         DeliverySteps(variant, d))
          [] d = "popup" ->
               EndExport(i, "ok", d, exportStatus,
                         ShowInTab(tabs, exports[i].popup, "image"),
                         Append(urls, "timer"), iosSaveDataURL, "", exports[i].firstFailed,
                         blob, DeliverySteps(variant, d))
          [] d = "share" ->
               ExportGoesOn(i, "share", exportStatus, exports[i].rast,
                            exports[i].firstFailed, exports[i].el, blob,
                            DeliverySteps(variant, d))
          [] OTHER ->
               ExportGoesOn(i, "dataurl",
                            setExportStatus(variant, ExportStatusText(variant, "preparing")),
                            exports[i].rast, exports[i].firstFailed, exports[i].el, blob,
                            DeliverySteps(variant, d))

\* a toBlob call settles with outcome o
download_rasterSettles(i, o) ==
    /\ i \in 1..Len(exports)
    /\ exports[i].pc \in {"raster1", "raster2"}
    /\ o \in RasterOutcomes(exports[i].el)
    /\ \E next \in {AfterRaster(variant, exports[i].rast, o)} :
        CASE next = "deliver" ->
               download_deliver(i, RasterBlob(exports[i].id, exports[i].rast))
          [] next = "retry" ->
               ExportGoesOn(i, "raster2", exportStatus, 2, TRUE, exports[i].el, NoBlob,
                            <<"await toBlob">>)
          [] OTHER -> ExportFails(i, exports[i].rast = 1 \/ exports[i].firstFailed)

\* navigator.share settles (v1): on success popup?.close() and return
download_shareSettles(i, ok) ==
    /\ i \in 1..Len(exports)
    /\ exports[i].pc = "share"
    /\ IF ok
       THEN EndExport(i, "ok", "share", exportStatus, CloseTab(tabs, exports[i].popup),
                      urls, iosSaveDataURL, "", exports[i].firstFailed, exports[i].blob,
                      <<>>)
       ELSE ExportFails(i, exports[i].firstFailed)

\* what fillTabWithImage finds: the tab it is given is missing or closed, or
\* takes the write, or throws at it
TabFound(ts, k, write) ==
    IF k = 0 \/ ts[k] = "closed" THEN "tab blocked"
    ELSE IF write THEN "tab written" ELSE "write throws"

\* blobToDataURL settles: v3 fills the tab, v4 sets the overlay's image
download_dataURLSettles(i, ok, write, nav) ==
    /\ i \in 1..Len(exports)
    /\ exports[i].pc = "dataurl"
    /\ IF ~ok THEN ExportFails(i, exports[i].firstFailed)
       ELSE IF variant = "v3"
       THEN \E f \in {fillTabWithImage(tabs, exports[i].popup, platform, write, nav)} :
                EndExport(i, "ok", Delivery(variant, platform, exports[i].popup),
                          setExportStatus(variant, ExportStatusText(variant, "held")),
                          f.tabs, urls, iosSaveDataURL, "", exports[i].firstFailed,
                          exports[i].blob,
                          <<"fillTabWithImage", TabFound(tabs, exports[i].popup, write)>>
                              \o f.tried)
       ELSE EndExport(i, "ok", Delivery(variant, platform, exports[i].popup),
                      setExportStatus(variant, ExportStatusText(variant, "held")),
                      tabs, urls, DataURL(exports[i].filename), "", exports[i].firstFailed,
                      exports[i].blob, <<"setIosSaveDataURL">>)

\* setTimeout(() => setExportStatus(""), ...) fires
clearStatusTimer ==
    /\ timers > 0
    /\ timers' = timers - 1
    /\ exportStatus' = ""
    /\ last' = Last("timer", "", "", NoOutcome)
    /\ UNCHANGED <<exporting, iosSaveDataURL, exports, tabs, urls, lastExport>>
    /\ ExportFrame

\* anchorDownload's requestAnimationFrame callback (v3, v4) runs and sets the
\* timer of revokeObjectURL; the timer of revokeObjectURL fires
revokeStep(k) ==
    /\ k \in 1..Len(urls)
    /\ urls[k] \in {"raf", "timer"}
    /\ urls' = [urls EXCEPT ![k] = IF @ = "raf" THEN "timer" ELSE "revoked"]
    /\ last' = Last("timer", "url", "", NoOutcome)
    /\ UNCHANGED <<exporting, exportStatus, iosSaveDataURL, exports, tabs, timers, lastExport>>
    /\ ExportFrame

\* the user closes a browsing context the page has opened
userClosesTab(k) ==
    /\ k \in 1..Len(tabs)
    /\ tabs[k] # "closed"
    /\ tabs' = [tabs EXCEPT ![k] = "closed"]
    /\ last' = Last("closeTab", "", "", NoOutcome)
    /\ UNCHANGED <<exporting, exportStatus, iosSaveDataURL, exports, urls, timers, lastExport>>
    /\ ExportFrame

\* the elements of IOSSaveOverlay a tap can land on
OverlayTargets == {"backdrop", "panel", "closeButton", "image"}

\* the elements a click on target bubbles through, innermost first, with the
\* handler each has: the backdrop and the close button call onClose, the
\* panel around the image calls e.stopPropagation()
OverlayPath(target) ==
    CASE target = "backdrop"    -> <<"onClose">>
      [] target = "panel"       -> <<"stopPropagation", "onClose">>
      [] target = "closeButton" -> <<"onClose", "stopPropagation", "onClose">>
      [] target = "image"       -> <<"none", "stopPropagation", "onClose">>

\* a mutant of OverlayCloses: the panel does not stop the click
OverlayCloses_noStop(target) ==
    \E k \in 1..Len(OverlayPath(target)) : OverlayPath(target)[k] = "onClose"

\* whether a click on target runs onClose: a handler on the path runs unless
\* one before it has stopped the propagation
OverlayCloses(target) ==
    \E k \in 1..Len(OverlayPath(target)) :
        /\ OverlayPath(target)[k] = "onClose"
        /\ \A j \in 1..(k - 1) : OverlayPath(target)[j] # "stopPropagation"

\* a tap on the overlay (v4, rendered while iosSaveDataURL is set);
\* onClose={() => setIosSaveDataURL(null)}
overlayTap(target) ==
    /\ variant = "v4"
    /\ iosSaveDataURL # Null
    /\ iosSaveDataURL' = IF OverlayCloses(target) THEN Null ELSE iosSaveDataURL
    /\ last' = Last("overlayTap", target, "", NoOutcome)
    /\ UNCHANGED <<exporting, exportStatus, exports, tabs, urls, timers, lastExport>>
    /\ ExportFrame

(***************************************************************************)
(* The profile API's answers                                               *)
(***************************************************************************)

AvatarA == "https://pbs.twimg.com/profile_images/1/a_normal.jpg"
AvatarB == "https://pbs.twimg.com/profile_images/2/b_normal.png"
AvatarC == "http://abs.twimg.com/sticky/c.png?x=1&y=2"
AvatarD == "https://pbs.twimg.com/d_normal_normal.jpg"

FullUser ==
    [name |-> "Bob B", avatar_url |-> AvatarA, profile_image_url_https |-> AvatarB,
     profile_image_url |-> AvatarC, avatar |-> [present |-> TRUE, url |-> AvatarD],
     description |-> "hello", bio |-> "other bio",
     followers_count |-> "0", followers |-> "7", following_count |-> "12",
     friends_count |-> "3", statuses_count |-> "1200", tweet_count |-> "5"]

\* the failures of the lookup
FailedOutcomes ==
    {Outcome(k, FALSE, EmptyUser) : k \in {"fetchThrows", "notOk", "jsonThrows"}}

\* the answers the page as a whole is driven with
SomeOutcomes ==
    FailedOutcomes \cup
        {Outcome("data", FALSE, EmptyUser), Outcome("data", TRUE, EmptyUser),
         Outcome("data", TRUE, FullUser)}

\* users with every combination of the name, avatar and bio fields (JSON
\* numbers are carried as their numerals), the counts all absent or all present ...
UsersByText ==
    {[c EXCEPT !.name = n, !.avatar_url = a1, !.profile_image_url_https = a2,
               !.profile_image_url = a3, !.avatar = a4, !.description = d, !.bio = b] :
        c \in {EmptyUser, FullUser},
        n \in {Null, "", "Bob B"},
        a1 \in {Null, "", AvatarA}, a2 \in {Null, AvatarB}, a3 \in {Null, AvatarC},
        a4 \in {NoAvatar, [present |-> TRUE, url |-> Null], [present |-> TRUE, url |-> AvatarD]},
        d \in {Null, "hello"}, b \in {Null, "other bio"}}

\* ... and users with every combination of the count fields, the others all
\* absent or all present
UsersByCounts ==
    {[c EXCEPT !.followers_count = f1, !.followers = f2, !.following_count = g1,
               !.friends_count = g2, !.statuses_count = t1, !.tweet_count = t2] :
        c \in {EmptyUser, FullUser},
        f1 \in {Null, "0"}, f2 \in {Null, "7"}, g1 \in {Null, "12"}, g2 \in {Null, "3"},
        t1 \in {Null, "1200"}, t2 \in {Null, "5"}}

AllOutcomes ==
    SomeOutcomes \cup {Outcome("data", TRUE, u) : u \in UsersByText \cup UsersByCounts}

(***************************************************************************)
(* Avatar Relay: GET /api/img?url=...                                      *)
(***************************************************************************)

allowedHosts ==
    {"pbs.twimg.com", "abs.twimg.com", "twimg.com", "video.twimg.com", "ton.twimg.com"}

\* a mutant of isAllowed: the suffix is matched without the dot before it
isAllowed_noDot(host) ==
    \/ host \in allowedHosts
    \/ \E h \in allowedHosts : host = h \/ endsWith(host, h)

\* a mutant of isAllowed: the allow-listed name is looked for anywhere in the host
isAllowed_includes(host) ==
    \/ host \in allowedHosts
    \/ \E h \in allowedHosts : host = h \/ IndexOf(host, "." \o h) # 0

\* allowedHosts.has(host) || [...allowedHosts].some(h => host === h || host.endsWith(`.${h}`))
isAllowed(host) ==
    \/ host \in allowedHosts
    \/ \E h \in allowedHosts : host = h \/ endsWith(host, "." \o h)

\* new Response(body, {status}) with the headers given (Null: header not set)
Response(status, body, contentType, cacheControl, acao) ==
    [status |-> status, body |-> body, contentType |-> contentType,
     cacheControl |-> cacheControl, acao |-> acao]

TextResponse(status, body) == Response(status, body, Null, Null, Null)

NoResponse == Response(0, Null, Null, Null, Null)

NoUpstream == [ok |-> FALSE, status |-> 0, contentType |-> Null, body |-> Null]

\* the requests the relay is driven with: schemes x hosts x paths, and the
\* malformed ones
RelaySchemes == {"https://", "http://", "https:", "ftp://", ""}
RelayHosts ==
    {"pbs.twimg.com", "abs.twimg.com", "twimg.com", "video.twimg.com", "ton.twimg.com",
     "sub.twimg.com", "a.b.twimg.com", "PBS.twimg.COM", "pbs.twimg.com:8080",
     "evil.com", "eviltwimg.com", "xtwimg.com", "twimg.com.evil.com",
     "pbs.twimg.com@evil.com", "evil.com@pbs.twimg.com", "pbs.twimg.com.",
     ".twimg.com", "twimg.co", "imgtw.com", "pbs twimg.com", ""}
RelayPaths == {"", "/profile.jpg", "/x.jpg"}
RelayUrls ==
    {s \o h \o p : s \in RelaySchemes, h \in RelayHosts, p \in RelayPaths}
        \cup {Null, "", "not a url", " https://pbs.twimg.com/a ", "data:image/png,twimg.com",
              "https://evil.com/x.jpg?u=.twimg.com", "https://evil.com/.twimg.com",
              "x://pbs.twimg.com/a", "1https://pbs.twimg.com/a", "://twimg.com"}

\* what the upstream may answer
UpstreamStatusOk == {200}
UpstreamStatusNotOk == {304, 404, 500}
UpstreamContentTypes == {Null, "", "image/png", "text/html"}
UpstreamBodies == {"<bytes A>", "<bytes B>"}

StatusText(n) ==
    CASE n = 304 -> "304" [] n = 404 -> "404" [] n = 500 -> "500" [] OTHER -> "200"

RelayInit ==
    /\ rpc = "idle"
    /\ rurl = Null
    /\ rhost = ""
    /\ rsteps = <<>>
    /\ rups = NoUpstream
    /\ rthrown = "none"
    /\ rresp = NoResponse

\* a mutant of RelayChecks: the catch around new URL(url) does not return, so
\* the handler goes on with host = ""
RelayChecks_catchFallsThrough(url) ==
    IF Falsy(url)
    THEN [resp |-> TextResponse(400, "Missing url param"), host |-> "", steps |-> <<"param">>]
    ELSE LET parsed == URLParse(url)
             host   == IF parsed.ok THEN parsed.hostname ELSE ""
         IN  IF ~isAllowed(host)
             THEN [resp |-> TextResponse(403, "Host not allowed"), host |-> host,
                   steps |-> <<"param", "parse", "allow">>]
             ELSE [resp |-> NoResponse, host |-> host,
                   steps |-> <<"param", "parse", "allow">>]

\* GET's checks before the upstream fetch (lines 5-32): the response that
\* rejects the request (NoResponse when it passes), the local `host`, and the
\* checks made, in order
RelayChecks(url) ==
    IF Falsy(url)
    THEN [resp |-> TextResponse(400, "Missing url param"), host |-> "", steps |-> <<"param">>]
    ELSE LET parsed == URLParse(url) IN
         IF ~parsed.ok
         THEN [resp |-> TextResponse(400, "Invalid url"), host |-> "",
               steps |-> <<"param", "parse">>]
         ELSE IF ~isAllowed(parsed.hostname)
              THEN [resp |-> TextResponse(403, "Host not allowed"), host |-> parsed.hostname,
                    steps |-> <<"param", "parse", "allow">>]
              ELSE [resp |-> NoResponse, host |-> parsed.hostname,
                    steps |-> <<"param", "parse", "allow">>]

\* a mutant of UpstreamRejected: upstream.ok is not looked at
UpstreamRejected_never(ups) == FALSE

\* if (!upstream.ok)
UpstreamRejected(ups) == ~ups.ok

\* a mutant of CatchResponse: the catch answers as for an upstream error
CatchResponse_502 == TextResponse(502, "Proxy failed")

\* catch (e) { return new Response("Proxy failed", { status: 500 }) }
CatchResponse == TextResponse(500, "Proxy failed")

\* a mutant of RelayedResponse: the content-type is passed on without a default
RelayedResponse_noDefaultType(ups) ==
    Response(200, ups.body, ups.contentType, "public, max-age=3600, s-maxage=3600", "*")

\* the 200 response that relays the upstream body
RelayedResponse(ups) ==
    Response(200, ups.body, Or(ups.contentType, "image/jpeg"),
             "public, max-age=3600, s-maxage=3600", "*")

\* GET, from its entry to its first await (or to its return when a check
\* rejects the request)
GET(url) ==
    /\ rpc = "idle"
    /\ rurl' = url
    /\ rups' = NoUpstream
    /\ rthrown' = "none"
    /\ \E c \in {RelayChecks(url)} :
       /\ rhost' = c.host
       /\ rresp' = c.resp
       /\ IF c.resp # NoResponse
          THEN /\ rsteps' = c.steps
               /\ rpc' = "done"
          ELSE /\ rsteps' = Append(c.steps, "fetch")
               /\ rpc' = "fetching"

\* await fetch(url, ...) settles: it rejects, or resolves with a response
GET_fetchSettled(threw, ok, status, contentType, body) ==
    /\ rpc = "fetching"
    /\ URLParse(rurl).scheme \notin FetchSchemes => threw
    /\ UNCHANGED <<rurl, rhost>>
    /\ IF threw
       THEN /\ rthrown' = "fetch"
            /\ rups' = NoUpstream
            /\ rresp' = CatchResponse
            /\ rsteps' = rsteps
            /\ rpc' = "done"
       ELSE LET ups == [ok |-> ok, status |-> status, contentType |-> contentType,
                        body |-> body] IN
            /\ rthrown' = "none"
            /\ rups' = ups
            /\ IF UpstreamRejected(ups)
               THEN /\ rresp' = TextResponse(502, "Upstream error: " \o StatusText(status))
                    /\ rsteps' = rsteps
                    /\ rpc' = "done"
               ELSE /\ rresp' = NoResponse
                    /\ rsteps' = Append(rsteps, "read")
                    /\ rpc' = "reading"

\* await upstream.arrayBuffer() settles
GET_bodySettled(threw) ==
    /\ rpc = "reading"
    /\ UNCHANGED <<rurl, rhost, rups, rsteps>>
    /\ rpc' = "done"
    /\ IF threw
       THEN /\ rthrown' = "body"
            /\ rresp' = CatchResponse
       ELSE /\ rthrown' = "none"
            /\ rresp' = RelayedResponse(rups)

RelayRequest ==
    /\ \E url \in RelayUrls : GET(url)
    /\ UNCHANGED <<uiVars, exportVars>>

RelayFetchSettles ==
    /\ \E threw \in BOOLEAN, ok \in BOOLEAN, ct \in UpstreamContentTypes,
          b \in UpstreamBodies :
          \E st \in (IF ok THEN UpstreamStatusOk ELSE UpstreamStatusNotOk) :
              GET_fetchSettled(threw, ok, st, ct, b)
    /\ UNCHANGED <<uiVars, exportVars>>

RelayBodySettles ==
    /\ \E threw \in BOOLEAN : GET_bodySettled(threw)
    /\ UNCHANGED <<uiVars, exportVars>>

\* the Response has been returned: the invocation is over and its locals are
\* gone; the next request finds a fresh handler
RelayReturned ==
    /\ rpc = "done"
    /\ rpc' = "idle"
    /\ rurl' = Null
    /\ rhost' = ""
    /\ rsteps' = <<>>
    /\ rups' = NoUpstream
    /\ rthrown' = "none"
    /\ rresp' = NoResponse
    /\ UNCHANGED <<uiVars, exportVars>>

RelayNext == RelayRequest \/ RelayFetchSettles \/ RelayBodySettles \/ RelayReturned

\* the relay on its own: requests arrive while no page is loaded
RelayAlone == RelayInit /\ NoPage

SpecRelay == RelayAlone /\ [][RelayNext]_vars

(***************************************************************************)
(* The page: typing, choosing a role, generating, making another           *)
(***************************************************************************)

TypeHandle ==
    /\ \E v \in Handles : setHandle(v)
    /\ UNCHANGED <<relayVars, exportVars>>

ChooseRole ==
    /\ \E role \in Roles : setSelectedRole(role)
    /\ UNCHANGED <<relayVars, exportVars>>

GenerateClicked ==
    /\ ClickGenerate
    /\ UNCHANGED <<relayVars, exportVars>>

EnterPressed ==
    /\ PressEnter
    /\ UNCHANGED <<relayVars, exportVars>>

LookupSettles ==
    /\ \E i \in 1..Len(lookups), o \in SomeOutcomes : generateCard_resume(i, o)
    /\ UNCHANGED <<relayVars, exportVars>>

MakeAnother ==
    /\ reset
    /\ UNCHANGED relayVars

Init == RelayInit /\ UIInit

Next ==
    \/ TypeHandle
    \/ ChooseRole
    \/ GenerateClicked
    \/ EnterPressed
    \/ LookupSettles
    \/ MakeAnother

Spec == Init /\ [][Next]_vars

\* generateCard alone: an invocation that has passed its checks and is
\* suspended at its await, and every answer the profile API can give it
ResolveInit ==
    /\ RelayInit
    /\ platform = Desktop
    /\ ExportsIdle
    /\ images = <<>>
    /\ variant \in Variants
    /\ handle \in {" @bob ", " a@b"}
    /\ selectedRole = "Mage"
    /\ loading = TRUE
    /\ error = ""
    /\ profile = InitialProfile
    /\ showCard = FALSE
    /\ lookups = <<[username |-> NormalizeHandle(handle), input |-> handle]>>
    /\ last = Last("generateCard", handle, NormalizeHandle(handle), NoOutcome)

ProfileArrives ==
    /\ \E o \in AllOutcomes : generateCard_resume(1, o)
    /\ UNCHANGED <<relayVars, exportVars>>

ResolveNext == ProfileArrives

SpecResolve == ResolveInit /\ [][ResolveNext]_vars

(***************************************************************************)
(* The card view: the card is on screen, as generateCard leaves it, in any *)
(* browser; the user downloads, closes what opens, and makes another       *)
(***************************************************************************)

ExportInit ==
    /\ RelayInit
    /\ platform \in Platforms
    /\ ExportsIdle
    /\ images = StageImages
    /\ variant \in Variants
    /\ handle \in {" @bob ", " a@b"}
    /\ selectedRole = "Mage"
    /\ loading = FALSE
    /\ error = ""
    /\ profile = ResolveProfile(NormalizeHandle(handle), Outcome("data", TRUE, FullUser))
    /\ showCard = TRUE
    /\ lookups = <<>>
    /\ last = Last("resolved", handle, NormalizeHandle(handle), Outcome("data", TRUE, FullUser))

DownloadClicked ==
    /\ ClickDownload
    /\ UNCHANGED relayVars

DelayElapsed ==
    /\ \E i \in 1..Len(exports) : download_delayElapsed(i)
    /\ UNCHANGED relayVars

DecodeSettles ==
    /\ \E i \in 1..Len(exports), k \in 1..Len(images) : decodeSettles(i, k)
    /\ UNCHANGED relayVars

ImagesReady ==
    /\ \E i \in 1..Len(exports) : download_imagesReady(i)
    /\ UNCHANGED relayVars

RasterSettles ==
    /\ \E i \in 1..Len(exports), o \in {"blob", "null", "throws"} : download_rasterSettles(i, o)
    /\ UNCHANGED relayVars

ShareSettles ==
    /\ \E i \in 1..Len(exports), ok \in BOOLEAN : download_shareSettles(i, ok)
    /\ UNCHANGED relayVars

DataURLSettles ==
    /\ \E i \in 1..Len(exports), ok \in BOOLEAN, write \in BOOLEAN, nav \in BOOLEAN :
           download_dataURLSettles(i, ok, write, nav)
    /\ UNCHANGED relayVars

StatusTimerFires ==
    /\ clearStatusTimer
    /\ UNCHANGED relayVars

UrlTimerFires ==
    /\ \E k \in 1..Len(urls) : revokeStep(k)
    /\ UNCHANGED relayVars

TabClosed ==
    /\ \E k \in 1..Len(tabs) : userClosesTab(k)
    /\ UNCHANGED relayVars

OverlayTapped ==
    /\ \E target \in OverlayTargets : overlayTap(target)
    /\ UNCHANGED relayVars

ExportNext ==
    \/ DownloadClicked
    \/ DelayElapsed
    \/ DecodeSettles
    \/ ImagesReady
    \/ RasterSettles
    \/ ShareSettles
    \/ DataURLSettles
    \/ StatusTimerFires
    \/ UrlTimerFires
    \/ TabClosed
    \/ OverlayTapped
    \/ MakeAnother

SpecExport == ExportInit /\ [][ExportNext]_vars

(***************************************************************************)
(* The image barrier: the card has just been shown in a desktop browser,   *)
(* its images are in any state; the user downloads while they load         *)
(***************************************************************************)

\* the states an img element can be found in
ImageStates == {Img(s, dc) : s \in {"loading", "complete", "broken"}, dc \in BOOLEAN}

BarrierInit ==
    /\ RelayInit
    /\ platform = Desktop
    /\ ExportsIdle
    /\ images \in [1..2 -> ImageStates]
    /\ variant \in Variants
    /\ handle = " @bob "
    /\ selectedRole = "Mage"
    /\ loading = FALSE
    /\ error = ""
    /\ profile = ResolveProfile(NormalizeHandle(handle), Outcome("data", TRUE, FullUser))
    /\ showCard = TRUE
    /\ lookups = <<>>
    /\ last = Last("resolved", handle, NormalizeHandle(handle), Outcome("data", TRUE, FullUser))

ImageLoads ==
    /\ \E k \in 1..Len(images), ok \in BOOLEAN : imageLoads(k, ok)
    /\ UNCHANGED relayVars

BarrierNext ==
    \/ DownloadClicked
    \/ DelayElapsed
    \/ ImageLoads
    \/ DecodeSettles
    \/ ImagesReady
    \/ RasterSettles
    \/ StatusTimerFires
    \/ UrlTimerFires
    \/ MakeAnother

SpecBarrier == BarrierInit /\ [][BarrierNext]_vars

(***************************************************************************)
(* Avatar Relay: properties                                                *)
(***************************************************************************)

\* the steps a sequence holds
StepsOf(seq) == {seq[i] : i \in 1..Len(seq)}

\* the request's url parameter as parsed by new URL
RelayParsed == URLParse(rurl)

\* host is an allow-listed name, or ends with "." followed by one: some
\* allow-listed name h sits at the end of host, right after a dot
ListedOrSubdomain(host) ==
    \E h \in allowedHosts :
        \/ host = h
        \/ \E k \in 2..Len(host) :
              /\ SubSeq(host, k, Len(host)) = h
              /\ SubSeq(host, k - 1, k - 1) = "."

\* the request has been answered 403
Answered403 == rpc = "done" /\ rresp.status = 403

\* the upstream fetch has been started for the request
FetchAttempted == "fetch" \in StepsOf(rsteps)

\* C1: a request whose url parses but whose hostname is neither an
\* allow-listed host nor a subdomain of one is answered 403, and no upstream
\* fetch is made for it.
C1_UnlistedHostGets403 ==
    (rpc # "idle" /\ ~Falsy(rurl) /\ RelayParsed.ok
        /\ ~ListedOrSubdomain(RelayParsed.hostname))
    => (Answered403 /\ ~FetchAttempted /\ rups = NoUpstream)

C1_Witness ==
    /\ Answered403
    /\ rurl = "https://twimg.com.evil.com/x.jpg"
    /\ ~FetchAttempted

\* C2: a request that parses is accepted (not answered 403, its upstream fetch
\* attempted) exactly when its hostname is an allow-listed host or ends with
\* "." followed by one; pbs.twimg.com and sub.twimg.com are accepted, evil.com
\* and eviltwimg.com (no dot boundary) are answered 403.
C2_AcceptedIffListedOrSubdomain ==
    /\ (rpc # "idle" /\ ~Falsy(rurl) /\ RelayParsed.ok)
        => ((FetchAttempted /\ rresp.status # 403)
                <=> ListedOrSubdomain(RelayParsed.hostname))
    /\ (rpc # "idle" /\ rurl \in {"https://pbs.twimg.com/profile.jpg",
                                   "https://sub.twimg.com/x.jpg"})
        => (FetchAttempted /\ rresp.status # 403)
    /\ (rpc # "idle" /\ rurl \in {"https://evil.com/x.jpg", "https://eviltwimg.com/x.jpg"})
        => (Answered403 /\ ~FetchAttempted)

C2_Witness ==
    /\ rpc = "done"
    /\ rurl = "https://sub.twimg.com/x.jpg"
    /\ rresp.status = 200

\* C3: a request whose url parameter is absent, empty or does not parse is
\* answered 400, before the allow-list is consulted and before any upstream
\* fetch; the checks are always made in the order parameter, parse,
\* allow-list, fetch.
C3_InvalidUrlGets400First ==
    /\ (rpc # "idle" /\ (Falsy(rurl) \/ ~RelayParsed.ok))
        => /\ rpc = "done"
           /\ rresp.status = 400
           /\ "allow" \notin StepsOf(rsteps)
           /\ ~FetchAttempted
    /\ \E n \in 0..5 : rsteps = SubSeq(<<"param", "parse", "allow", "fetch", "read">>, 1, n)

C3_Witness ==
    /\ rpc = "done"
    /\ rurl = "not a url"
    /\ rresp.status = 400
    /\ rsteps = <<"param", "parse">>

\* C4: an accepted request whose upstream response is not successful is
\* answered 502 without the upstream body (which is never read); a 200 is
\* returned only when the host passed the allow-list and the upstream response
\* was successful.
C4_UpstreamErrorGets502 ==
    /\ (rups # NoUpstream /\ ~rups.ok)
        => /\ rpc = "done"
           /\ rresp.status = 502
           /\ rresp.body # rups.body
           /\ "read" \notin StepsOf(rsteps)
    /\ rresp.status = 200
        => /\ RelayParsed.ok
           /\ ListedOrSubdomain(RelayParsed.hostname)
           /\ rups.ok
           /\ rresp.body = rups.body

C4_Witness ==
    /\ rpc = "done"
    /\ rresp.status = 502
    /\ rups.status = 404
    /\ rresp.body = "Upstream error: 404"

\* C5: when the upstream fetch or the read of the upstream body throws, the
\* request is answered 500; every request that ends carries one of the
\* statuses 200, 400, 403, 502, 500, and none is answered before it ends.
C5_ExceptionGets500 ==
    /\ rthrown # "none" => (rpc = "done" /\ rresp.status = 500)
    /\ rpc = "done" => rresp.status \in {200, 400, 403, 502, 500}
    /\ rpc # "done" => rresp = NoResponse

C5_Witness ==
    /\ rpc = "done"
    /\ rthrown = "body"
    /\ rresp.status = 500
    /\ rups.ok

\* C6: every 200 response carries the upstream content-type, or image/jpeg
\* when the upstream gives none (no header, or an empty one), cache-control
\* "public, max-age=3600, s-maxage=3600" and access-control-allow-origin "*".
C6_OkResponseHeaders ==
    rresp.status = 200
    => /\ rresp.contentType =
              (IF rups.contentType \in {Null, ""} THEN "image/jpeg" ELSE rups.contentType)
       /\ rresp.cacheControl = "public, max-age=3600, s-maxage=3600"
       /\ rresp.acao = "*"

C6_Witness ==
    /\ rresp.status = 200
    /\ rups.contentType = Null
    /\ rresp.contentType = "image/jpeg"

(***************************************************************************)
(* generateCard: properties                                                *)
(***************************************************************************)

\* h without its first character when that is "@"
StripLeadingAt(h) == IF startsWith(h, "@") THEN SubSeq(h, 2, Len(h)) ELSE h

\* the input with its surrounding white space trimmed and its leading "@"
\* stripped, in either order (and trimmed again after the strip)
TrimmedStripped(h) ==
    {StripLeadingAt(trim(h)), trim(StripLeadingAt(h)), trim(StripLeadingAt(trim(h)))}

\* C7: for every handle input with a leading "@" or surrounding white space,
\* the username stored in the resolved profile is the input with the
\* surrounding white space trimmed and the leading "@" stripped, nothing else
\* removed.
C7_UsernameIsTrimmedStrippedInput ==
    (last.op = "resolved"
        /\ (startsWith(trim(last.input), "@") \/ trim(last.input) # last.input))
    => profile.username \in TrimmedStripped(last.input)

\* C8: a generateCard invocation whose normalized handle is empty, or with no
\* role selected, sets the inline error, starts no profile lookup and leaves
\* loading, profile and showCard as they were (the card is not shown).
C8_InvalidInputIsRejected ==
    [][ (last'.op = "generateCard" /\ (NormalizeHandle(handle) = "" \/ selectedRole = ""))
        => /\ error' \in {"Please enter your X/Twitter username", "Please select your role"}
           /\ lookups' = lookups
           /\ loading' = loading
           /\ profile' = profile
           /\ showCard' = showCard
           /\ ~showCard' ]_vars

C8_Witness ==
    /\ last.op = "generateCard"
    /\ handle = " @bob "
    /\ selectedRole = ""
    /\ error = "Please select your role"
    /\ lookups = <<>>
    /\ ~loading
    /\ ~showCard

\* C9: when the profile fetch throws or returns a non-success status, the
\* stored profile has username = the normalized handle, displayName = the
\* handle, an empty avatar, the bio "Stay Ritualized" and absent counts; the
\* card is shown (showCard) and loading is false again.
C9_FailedLookupFallsBack ==
    (last.op = "resolved" /\ last.outcome.kind \in {"fetchThrows", "notOk"})
    => /\ last.username = NormalizeHandle(last.input)
       /\ profile = [username |-> last.username, displayName |-> last.username,
                     avatarUrl |-> "", bio |-> "Stay Ritualized",
                     followers |-> Null, following |-> Null, tweets |-> Null]
       /\ showCard
       /\ ~loading

C9_Witness ==
    /\ last.op = "resolved"
    /\ last.outcome.kind = "notOk"
    /\ last.input = " @bob "
    /\ profile.username = "bob"
    /\ profile.displayName = "bob"
    /\ showCard
    /\ ~loading

\* C10: a successful profile response without the user object, or with any
\* user field absent, is no error: each absent field takes its default
\* (displayName = handle, avatar empty, bio "Stay Ritualized", counts absent)
\* and the card is shown.
C10_AbsentFieldsTakeDefaults ==
    (last.op = "resolved" /\ last.outcome.kind = "data")
    => LET u    == last.outcome.user
           none == ~last.outcome.hasUser
       IN  /\ profile.username = last.username
           /\ (none \/ u.name = Null) => profile.displayName = last.username
           /\ (none \/ ( /\ u.avatar_url = Null
                         /\ u.profile_image_url_https = Null
                         /\ u.profile_image_url = Null
                         /\ (~u.avatar.present \/ u.avatar.url = Null) ))
                => profile.avatarUrl = ""
           /\ (none \/ (u.description = Null /\ u.bio = Null))
                => profile.bio = "Stay Ritualized"
           /\ (none \/ (u.followers_count = Null /\ u.followers = Null))
                => profile.followers = Null
           /\ (none \/ (u.following_count = Null /\ u.friends_count = Null))
                => profile.following = Null
           /\ (none \/ (u.statuses_count = Null /\ u.tweet_count = Null))
                => profile.tweets = Null
           /\ showCard
           /\ ~loading
           /\ error = ""

C10_Witness ==
    /\ last.op = "resolved"
    /\ last.outcome.kind = "data"
    /\ last.outcome.hasUser
    /\ last.outcome.user.name = Null
    /\ last.outcome.user.description = Null
    /\ last.outcome.user.bio = Null
    /\ last.outcome.user.followers_count = "0"
    /\ profile.displayName = last.username
    /\ profile.bio = "Stay Ritualized"
    /\ profile.followers = "0"
    /\ showCard

(***************************************************************************)
(* Export: properties                                                      *)
(***************************************************************************)

\* C11: an export whose first rasterization (at high pixel density) throws or
\* gives nothing makes exactly one more rasterization call before it ends, in
\* success or in failure; no export makes more than two calls, and none ends
\* after a failed first call with that call alone.
C11_FailedRasterIsRetriedOnce ==
    /\ \A i \in 1..Len(exports) : exports[i].rast <= 2
    /\ lastExport.result # "none" =>
        /\ lastExport.rast <= 2
        /\ lastExport.firstFailed => lastExport.rast = 2

\* C12: a download invocation made while an export is in flight starts
\* nothing, so that at every moment at most one export is running, whatever
\* the order of the clicks and of the completions.
C12_AtMostOneExportInFlight == Len(exports) <= 1

\* an object URL is still to be revoked by a pending callback
RevocationPending == \E k \in 1..Len(urls) : urls[k] \in {"raf", "timer"}

\* C13: whatever way an export ends, failure included, the browsing context
\* it opened before its first await is closed, and once the export's callbacks
\* have run every object URL it created is revoked.
C13_ResourcesReleasedOnEveryExit ==
    /\ (lastExport.result # "none" /\ lastExport.popup # 0)
        => tabs[lastExport.popup] = "closed"
    /\ (exports = <<>> /\ ~RevocationPending)
        => \A k \in 1..Len(urls) : urls[k] = "revoked"

\* C14: right after reset the handle, the selected role, the profile, the
\* error, the card's visibility and the export status line have their initial
\* values, after a successful export as after anything else; and reset applied
\* to the state reset leaves changes nothing.
C14_ResetRestoresInitialValues ==
    /\ last.op = "reset" =>
        /\ handle = ""
        /\ selectedRole = ""
        /\ profile = InitialProfile
        /\ error = ""
        /\ showCard = FALSE
        /\ exportStatus = ""
    /\ resetState(variant, resetState(variant, PageState)) = resetState(variant, PageState)

\* reset has run after the one export made has succeeded, the timer that
\* clears its status line not yet fired
C14_Witness ==
    /\ last.op = "reset"
    /\ variant = "v4"
    /\ lastExport.result = "ok"
    /\ started = 1
    /\ timers = 1
    /\ exports = <<>>
    /\ exportStatus = ""
    /\ profile = InitialProfile

\* C15: when an export throws (its rasterization has failed after the retry,
\* or another step has thrown) it ends with the failure shown (the status line
\* of v3 and v4, the alert of v1) and the in-flight flag cleared, so that
\* download, invoked again on the card, is not refused.
C15_FailedExportCanBeRetried ==
    (last.op = "download" /\ last.input = "failed") =>
        /\ lastExport.result = "failed"
        /\ exporting = FALSE
        /\ variant # "v1" => exportStatus = ExportStatusText(variant, "failed")
        /\ variant = "v1" => lastExport.alert = "Export failed on iOS. Try again."
        /\ CardRendered => ~DownloadRefused(variant, CardRendered, exporting)

\* after an export that failed on its second rasterization, download has been
\* invoked again and a fresh export is under way
C15_Witness ==
    /\ variant = "v4"
    /\ lastExport.result = "failed"
    /\ lastExport.rast = 2
    /\ last.op = "download"
    /\ last.input = "started"
    /\ Len(exports) = 1
    /\ exports[1].pc = "delay"
    /\ exports[1].rast = 0
    /\ exporting

(***************************************************************************)
(* generateCard: the avatar                                                *)
(***************************************************************************)

\* the first element of seq that is neither absent nor empty; "" when none is
FirstNonEmpty(seq) ==
    IF \E k \in 1..Len(seq) : seq[k] \notin {Null, ""}
    THEN seq[CHOOSE k \in 1..Len(seq) :
                /\ seq[k] \notin {Null, ""}
                /\ \A j \in 1..(k - 1) : seq[j] \in {Null, ""}]
    ELSE ""

\* the avatar fields of a user in the order the claim gives them
AvatarFields(u) ==
    <<u.avatar_url, u.profile_image_url_https, u.profile_image_url,
      IF u.avatar.present THEN u.avatar.url ELSE Null>>

\* a user has arrived and generateCard has set the profile from it
ResolvedFromUser == last.op = "resolved" /\ last.outcome.kind = "data" /\ last.outcome.hasUser

\* C16 as stated: on network success a non-empty avatarUrl of the resolved
\* profile is "/api/img?url=" followed by the URL-encoded first non-empty of
\* avatar_url, profile_image_url_https, profile_image_url, avatar.url.
C16_AvatarIsProxiedChosenUrl ==
    (ResolvedFromUser /\ profile.avatarUrl # "") =>
        profile.avatarUrl =
            "/api/img?url=" \o encodeURIComponent(FirstNonEmpty(AvatarFields(last.outcome.user)))

\* C16 as amended: on network success the avatar is the first non-empty of
\* the four fields with its first "_normal" replaced by "_400x400"; the
\* resolved avatarUrl is empty when no field is non-empty, and otherwise is
\* "/api/img?url=" followed by that URL, URL-encoded: never a direct
\* external URL.
C16_AvatarIsProxiedUpscaledUrl ==
    ResolvedFromUser =>
        \E chosen \in {FirstNonEmpty(AvatarFields(last.outcome.user))} :
            IF chosen = ""
            THEN profile.avatarUrl = ""
            ELSE /\ profile.avatarUrl =
                        "/api/img?url="
                            \o encodeURIComponent(ReplaceFirst(chosen, "_normal", "_400x400"))
                 /\ startsWith(profile.avatarUrl, "/api/img?url=")
                 /\ IndexOf(profile.avatarUrl, "://") = 0

\* avatar_url is absent, profile_image_url_https is chosen and proxied
C16_Witness ==
    /\ ResolvedFromUser
    /\ last.outcome.user.avatar_url = Null
    /\ last.outcome.user.profile_image_url_https = AvatarB
    /\ profile.avatarUrl
          = "/api/img?url=https%3A%2F%2Fpbs.twimg.com%2Fprofile_images%2F2%2Fb_400x400.png"

(***************************************************************************)
(* The role configuration and the card                                     *)
(***************************************************************************)

\* C17: roleConfig has exactly six roles, each with 1 to 5 stars, and a card
\* on screen for the role "Mage" shows 3 stars and the rarity label "MAGE".
\* (roleConfig is a constant of the module, as it is a const the code never
\* assigns to.)
C17_SixRolesAndMageCard ==
    /\ Cardinality(Roles) = 6
    /\ \A role \in Roles : roleConfig[role].stars \in 1..5
    /\ (CardRendered /\ selectedRole = "Mage") =>
        /\ RenderedCard(selectedRole, profile).stars = 3
        /\ RenderedCard(selectedRole, profile).badge = "MAGE"

\* the card generated from " @bob " with role Mage is on screen
C17_Witness ==
    /\ CardRendered
    /\ selectedRole = "Mage"
    /\ last.op = "resolved"
    /\ last.input = " @bob "
    /\ profile.username = "bob"
    /\ RenderedCard(selectedRole, profile).sideHandle = "@bob"
    /\ RenderedCard(selectedRole, profile).stars = 3

(***************************************************************************)
(* Export: the file and its delivery                                       *)
(***************************************************************************)

\* the file name the claim gives for a profile's username
ClaimedFilename(username) ==
    IF username # "" THEN "ritual-card-" \o username \o ".png" ELSE "ritual-card-card.png"

\* C18: the file an export produces is named ritual-card-<username>.png for
\* the username of the profile download found, and ritual-card-card.png when
\* that username is empty.
C18_FileIsNamedAfterUsername ==
    /\ \A i \in 1..Len(exports) : exports[i].filename = ClaimedFilename(exports[i].username)
    /\ lastExport.result # "none" => lastExport.filename = ClaimedFilename(lastExport.username)
    /\ ExportFilename("") = "ritual-card-card.png"

\* the anchor has saved the card of "ab"
C18_Witness ==
    /\ lastExport.result = "ok"
    /\ lastExport.delivery = "anchor"
    /\ lastExport.username = "ab"
    /\ lastExport.filename = "ritual-card-ab.png"

\* C19: in the earliest revision (v1) an export outside iOS is delivered
\* through the <a download> anchor with a Blob URL; the Web Share path is
\* taken on iOS only.
C19_ShareOnIOSOnly ==
    variant = "v1" =>
        /\ \A i \in 1..Len(exports) : exports[i].pc = "share" => platform.ios
        /\ lastExport.result = "ok" =>
            /\ ~platform.ios => lastExport.delivery = "anchor"
            /\ lastExport.delivery = "share" => platform.ios

C27_FormOrCardIsRendered ==
    /\ FormRendered \/ CardRendered
    /\ showCard => selectedRole \in Roles

\* C28: at most one profile lookup is in flight at any time: while loading
\* is true no generateCard invocation starts another, so that no response
\* sets the profile after the response of a later invocation has.
C28_AtMostOneLookupInFlight ==
    /\ Len(lookups) <= 1
    /\ Len(lookups) = 1 => loading

(***************************************************************************)
(* Export: the status text and the overlay against reset and timers        *)
(***************************************************************************)

\* C29: while an export is in flight (exporting is true) the export status
\* text is not empty: no status timer of an earlier export, and nothing
\* else, clears the status the running export has set.
C29_StatusShownWhileExporting ==
    (variant # "v1" /\ exporting) => exportStatus # ""

\* C30: in revision v4 the iOS save overlay is visible (iosSaveDataURL is
\* not null) only while a card is shown: after reset it stays hidden, even
\* when an export was in flight at the time of the reset.
C30_OverlayOnlyWithCard ==
    (variant = "v4" /\ iosSaveDataURL # Null) => CardRendered

(***************************************************************************)
(* Export: the calls a download invocation makes, in order                 *)
(***************************************************************************)

\* whether the call x is in the log s
Has(s, x) == \E k \in 1..Len(s) : s[k] = x

\* the logs of the invocations in flight and of the one that ended last
ExportLogs == {exports[i].steps : i \in 1..Len(exports)} \cup {lastExport.steps}

\* the calls that decide how the image is handed over
SelectionCalls == {"isIOS", "getUA", "window.open", "canShare"}

\* the awaits of download
AwaitCalls ==
    {"await setTimeout", "await waitForImages", "await toBlob", "await navigator.share",
     "await blobToDataURL"}

\* the calls that hand the image over
DeliveryCalls ==
    {"await navigator.share", "popup.location.href", "a.click", "fillTabWithImage",
     "setIosSaveDataURL"}

\* C21: every call that decides how the image is handed over (the platform
\* test, the opening of the blank context, the canShare test) is made before
\* the first await of the invocation.
C21_PathSelectedBeforeAnyAwait ==
    \A s \in ExportLogs : \A j, k \in 1..Len(s) :
        (s[j] \in AwaitCalls /\ s[k] \in SelectionCalls) => k < j

\* C23: an invocation makes at most one of the calls that hand the image
\* over, and the blob it holds or has handed over was made by a toBlob call
\* of its own, never by an earlier invocation.
C23_OneDeliveryOfOwnBlob ==
    /\ \A s \in ExportLogs : Cardinality({k \in 1..Len(s) : s[k] \in DeliveryCalls}) <= 1
    /\ \A i \in 1..Len(exports) :
           exports[i].blob # NoBlob => exports[i].blob.by = exports[i].id
    /\ lastExport.delivery # "none" =>
           /\ lastExport.blob.by = lastExport.id
           /\ lastExport.blob.call = lastExport.rast

C23_Witness ==
    /\ lastExport.result = "ok"
    /\ lastExport.id = 2
    /\ Cardinality({k \in 1..Len(lastExport.steps) : lastExport.steps[k] \in DeliveryCalls}) = 1

\* C24: in a browser that is not iOS an export that succeeds has handed the
\* image over by the anchor download: it has made an object URL and clicked
\* the anchor, and the URL is revoked by a timer set after the click.
C24_AnchorDownloadOffIOS ==
    (lastExport.result = "ok" /\ ~platform.ios) =>
        /\ lastExport.delivery = "anchor"
        /\ Has(lastExport.steps, "createObjectURL")
        /\ Has(lastExport.steps, "a.click")
        /\ \E k \in 1..Len(urls) : urls[k] \in {"raf", "timer", "revoked"}

\* C25: in v3, when fillTabWithImage finds the tab missing or closed it tries
\* window.open(dataURL), and when the write into the tab throws it sends the
\* tab to the data URL; in both cases the export ends as succeeded.
C25_BlockedTabFallsBack ==
    (variant = "v3" /\ Has(lastExport.steps, "fillTabWithImage")) =>
        /\ lastExport.result = "ok"
        /\ Has(lastExport.steps, "tab blocked") =>
               Has(lastExport.steps, "window.open(dataURL)")
        /\ Has(lastExport.steps, "write throws") =>
               Has(lastExport.steps, "tab.location.href")
        /\ exportStatus # ExportStatusText(variant, "failed") \/ last.op # "download"

C25_Witness ==
    /\ variant = "v3"
    /\ last.op = "download"
    /\ Has(lastExport.steps, "tab blocked")
    /\ lastExport.result = "ok"

(***************************************************************************)
(* Export: the order of the status texts                                   *)
(***************************************************************************)

\* the state of the export a status text stands for
StatusState(v, text) ==
    CASE text = "" -> "Idle"
      [] text = ExportStatusText(v, "rendering") -> "Rendering"
      [] text = ExportStatusText(v, "exporting") -> "Rasterizing"
      [] text \in {ExportStatusText(v, "preparing"), ExportStatusText(v, "downloading")} ->
             "Delivering"
      [] text \in {ExportStatusText(v, "held"), ExportStatusText(v, "downloaded")} ->
             "Succeeded"
      [] text = ExportStatusText(v, "failed") -> "Failed"

\* the steps of the status the order allows: each state to the next, any state
\* of a running export to Failed, a terminal state to Idle or to the Rendering
\* of the next export; sync: "Downloading..." and "Downloaded!" were set in
\* one synchronous block, of which only the last is seen
StatusFollows(a, b, sync) ==
    \/ a = b
    \/ <<a, b>> \in {<<"Idle", "Rendering">>, <<"Rendering", "Rasterizing">>,
                     <<"Rasterizing", "Delivering">>, <<"Delivering", "Succeeded">>}
    \/ a \in {"Rendering", "Rasterizing", "Delivering"} /\ b = "Failed"
    \/ a \in {"Succeeded", "Failed"} /\ b \in {"Idle", "Rendering"}
    \/ sync /\ a = "Rasterizing" /\ b = "Succeeded"

\* C26: the export status goes Idle, Rendering, Rasterizing, Delivering, then
\* Succeeded or Failed: every step of the status text is a step of that
\* order, no state is skipped on the way to Succeeded and none comes back
\* before the terminal state.  (reset may empty the status at any time.)
C26_StatusFollowsTheOrder ==
    [][(variant # "v1" /\ last'.op # "reset") =>
          StatusFollows(StatusState(variant, exportStatus),
                        StatusState(variant, exportStatus'),
                        last'.op = "download" /\ lastExport'.delivery = "anchor")]_vars

(***************************************************************************)
(* Export: the image barrier                                               *)
(***************************************************************************)

\* the awaits of download that come after waitForImages
PastBarrier == {"raster1", "raster2", "share", "dataurl"}

\* the invocation whose log is s was thrown out of waitForImages
AbortedAtBarrier(s) ==
    /\ Len(s) >= 2
    /\ s[Len(s) - 1] = "await waitForImages"
    /\ s[Len(s)] = "catch"

=============================================================================
